---- MODULE Spec2Model ----
(***************************************************************************)
(* Model of whats_cooking/exploratory_analysis.py: the parallel ingredient *)
(* counter (ingredients_counter / parallel_counting), the name cleaner     *)
(* (clean_cuisine_names), create_folder and the cuisines section of the    *)
(* script.  Each part has its own specification over the shared variables. *)
(***************************************************************************)
EXTENDS Integers, Sequences, FiniteSets, TLC

\* ------------------------------------------------------------------ bounds
MaxRecords == 3
MaxCores == 3
MaxNames == 2
MaxNameLen == 3
MaxDepth == 2
MaxRecipes == 4

VARIABLES
    \* ingredients_counter
    data,               \* the Series of ingredient lists passed in
    cores,              \* cpu_count()
    pc,                 \* position of the caller of ingredients_counter
    data_chunks,        \* np.array_split(data, cores)
    task,               \* per chunk: "pending", "done" or "failed"
    counter_list,       \* per chunk: what its worker sent back
    ingredients_count,  \* the returned Series, as a sequence of entries
    error,              \* what the caller raised, if anything
    \* clean_cuisine_names
    cuisine_names, clean_names, npc,
    \* create_folder
    fs, called, ret,
    \* the cuisines section of the script
    df_cuisine, cuisine, n_cuisines, cpc

counterVars == <<data, cores, pc, data_chunks, task, counter_list,
                 ingredients_count, error>>
nameVars == <<cuisine_names, clean_names, npc>>
folderVars == <<fs, called, ret>>
cuisineVars == <<df_cuisine, cuisine, n_cuisines, cpc>>
vars == <<counterVars, nameVars, folderVars, cuisineVars>>

\* ------------------------------------------------------------ generic helpers
Range(s) == {s[i] : i \in DOMAIN s}

Min(a, b) == IF a < b THEN a ELSE b

SeqsUpTo(S, n) == UNION {[1..k -> S] : k \in 0..n}

Perms(S) == {p \in [1..Cardinality(S) -> S] : Range(p) = S}

\* ------------------------------------------------------ the ingredient counter
\* An ingredient that cannot be a Counter key (a nested list in the JSON).
Unhashable == "[unhashable]"

Ingredients == {"salt", "oil", "rice"}

\* The ingredient lists the datasets are built from.
RecipePool ==
    { <<>>, <<"salt">>, <<"salt", "salt">>, <<"salt", "oil">>,
      <<"oil", "rice">>, <<"rice", Unhashable>> }

Datasets == SeqsUpTo(RecipePool, MaxRecords)

EmptyCounter == [k \in {} |-> 0]

\* collections.Counter(iterable): one key per distinct element, its multiplicity.
Counter(list) ==
    [k \in Range(list) |-> Cardinality({i \in DOMAIN list : list[i] = k})]

Hashable(list) == Unhashable \notin Range(list)

CounterGet(c, k) == IF k \in DOMAIN c THEN c[k] ELSE 0

\* Counter.__add__: key-wise sum, keeping the positive counts only.
CounterAdd(c1, c2) ==
    LET keys == DOMAIN c1 \cup DOMAIN c2
        tot(k) == CounterGet(c1, k) + CounterGet(c2, k)
    IN  [k \in {x \in keys : tot(x) > 0} |-> tot(k)]

\* numpy's reduction of a non-empty object array with +: a left fold that
\* starts from the first element.
RECURSIVE FoldCounters(_, _)
FoldCounters(acc, cs) ==
    IF Len(cs) = 0 THEN acc
    ELSE FoldCounters(CounterAdd(acc, Head(cs)), Tail(cs))

SumCounters(cs) == FoldCounters(Head(cs), Tail(cs))

\* A value a worker sends back: a Counter, the int 0, or an exception.
CounterVal(c) == [tag |-> "Counter", c |-> c]
IntZero == [tag |-> "int", c |-> EmptyCounter]
WorkerError == [tag |-> "TypeError", c |-> EmptyCounter]
NoValue == [tag |-> "none", c |-> EmptyCounter]

\* parallel_counting with the exception swallowed (the unhashable elements
\* skipped instead of raising).
parallel_counting_swallow(chunk) ==
    IF Len(chunk) = 0 THEN IntZero
    ELSE CounterVal(SumCounters(
            [i \in DOMAIN chunk |->
                Counter(SelectSeq(chunk[i], LAMBDA x : x # Unhashable))]))

\* parallel_counting(data) == data.map(Counter).sum(): map raises on the first
\* list with an unhashable element; the sum of an empty object Series is the
\* int 0, of a non-empty one the + of its Counters.
parallel_counting(chunk) ==
    IF \E i \in DOMAIN chunk : ~Hashable(chunk[i]) THEN WorkerError
    ELSE IF Len(chunk) = 0 THEN IntZero
    ELSE CounterVal(SumCounters([i \in DOMAIN chunk |-> Counter(chunk[i])]))

\* np.array_split's division points: the first n % N sections hold
\* n \div N + 1 elements, the others n \div N.
DivPoint(n, N, i) == i * (n \div N) + Min(i, n % N)

\* A split into equal sections that forgets the n % N records left over.
array_split_drop(ary, N) ==
    [i \in 1..N |->
        SubSeq(ary, (i - 1) * (Len(ary) \div N) + 1, i * (Len(ary) \div N))]

\* np.array_split(ary, N): N consecutive slices ary[st:end].
array_split(ary, N) ==
    [i \in 1..N |->
        SubSeq(ary, DivPoint(Len(ary), N, i - 1) + 1, DivPoint(Len(ary), N, i))]

\* sum(counter_list, Counter()): a left fold with +, starting from Counter();
\* Counter + int is a TypeError.
RECURSIVE PySum(_, _)
PySum(acc, xs) ==
    IF Len(xs) = 0 THEN CounterVal(acc)
    ELSE IF Head(xs).tag # "Counter" THEN WorkerError
    ELSE PySum(CounterAdd(acc, Head(xs).c), Tail(xs))

\* pd.Series(counter): one entry per key, in the order the mapping iterates.
Series(c, order) == [i \in DOMAIN order |-> [key |-> order[i], value |-> c[order[i]]]]

\* Whether entry a goes before entry b in the sorted Series.
Before(a, b, ascending) ==
    IF ascending THEN a.value < b.value ELSE a.value > b.value

RECURSIVE InsertEntry(_, _, _)
InsertEntry(e, s, ascending) ==
    IF Len(s) = 0 THEN <<e>>
    ELSE IF Before(e, Head(s), ascending) THEN <<e>> \o s
    ELSE <<Head(s)>> \o InsertEntry(e, Tail(s), ascending)

RECURSIVE SortEntries(_, _)
SortEntries(s, ascending) ==
    IF Len(s) = 0 THEN <<>>
    ELSE InsertEntry(s[Len(s)],
                     SortEntries(SubSeq(s, 1, Len(s) - 1), ascending), ascending)

\* sort_values() with the default ascending=True.
sort_values_ascending(s) == SortEntries(s, TRUE)

\* Series.sort_values(ascending=False).
sort_values(s) == SortEntries(s, FALSE)

Workers == DOMAIN task

\* pool.map returning while some task is still running.
SomeTaskDone == \E w \in Workers : task[w] = "done"

\* pool.map(parallel_counting, data_chunks) returns its list only when every
\* task has sent back a result.
AllTasksDone == \A w \in Workers : task[w] = "done"

CounterInit ==
    /\ data \in Datasets
    /\ cores \in 1..MaxCores
    /\ pc = "start"
    /\ data_chunks = <<>>
    /\ task = <<>>
    /\ counter_list = <<>>
    /\ ingredients_count = <<>>
    /\ error = "none"

\* cpu_count, np.array_split, Pool(cores) and the dispatch of pool.map: one
\* task per chunk.
Split ==
    /\ pc = "start"
    /\ data_chunks' = array_split(data, cores)
    /\ task' = [w \in 1..cores |-> "pending"]
    /\ counter_list' = [w \in 1..cores |-> NoValue]
    /\ pc' = "map"
    /\ UNCHANGED <<data, cores, ingredients_count, error>>
    /\ UNCHANGED <<nameVars, folderVars, cuisineVars>>

\* A pool process runs parallel_counting on chunk w and sends the result (or
\* the exception) back; the result list is indexed by chunk, not by arrival.
Worker(w) ==
    /\ task[w] = "pending"
    /\ LET r == parallel_counting(data_chunks[w])
       IN  /\ counter_list' = [counter_list EXCEPT ![w] = r]
           /\ task' = [task EXCEPT ![w] =
                          IF r.tag = "TypeError" THEN "failed" ELSE "done"]
    /\ UNCHANGED <<data, cores, pc, data_chunks, ingredients_count, error>>
    /\ UNCHANGED <<nameVars, folderVars, cuisineVars>>

\* pool.map re-raises a task's exception in the caller (at once on Python 2,
\* after the last task on Python 3); pool.close() and the merge never run.
PoolMapRaise ==
    /\ pc = "map"
    /\ \E w \in Workers : task[w] = "failed"
    /\ pc' = "raised"
    /\ error' = "worker"
    /\ UNCHANGED <<data, cores, data_chunks, task, counter_list, ingredients_count>>
    /\ UNCHANGED <<nameVars, folderVars, cuisineVars>>

\* pool.map returns, pool.close(), then
\* pd.Series(sum(counter_list, Counter())).sort_values(ascending=False).
Reduce ==
    /\ pc = "map"
    /\ AllTasksDone
    /\ LET merged == PySum(EmptyCounter, counter_list)
       IN  IF merged.tag # "Counter"
           THEN /\ pc' = "raised"
                /\ error' = "sum"
                /\ UNCHANGED ingredients_count
           ELSE /\ pc' = "returned"
                /\ \E order \in Perms(DOMAIN merged.c) :
                      ingredients_count' = sort_values(Series(merged.c, order))
                /\ UNCHANGED error
    /\ UNCHANGED <<data, cores, data_chunks, task, counter_list>>
    /\ UNCHANGED <<nameVars, folderVars, cuisineVars>>

CounterIdle ==
    /\ data = <<>>
    /\ cores = 1
    /\ pc = "idle"
    /\ data_chunks = <<>>
    /\ task = <<>>
    /\ counter_list = <<>>
    /\ ingredients_count = <<>>
    /\ error = "none"

\* --------------------------------------------------------- clean_cuisine_names
\* A name is a sequence of characters.
Chars == {"a", "A", "_"}

IsCased(ch) == ch \in {"a", "A"}
Upper(ch) == IF ch = "a" THEN "A" ELSE ch
Lower(ch) == IF ch = "A" THEN "a" ELSE ch

NamePool == SeqsUpTo(Chars, MaxNameLen)

\* str.title(): a cased character is upper-cased when the character before it
\* is not cased (or there is none) and lower-cased otherwise; the other
\* characters are kept.
title(name) ==
    [i \in DOMAIN name |->
        IF ~IsCased(name[i]) THEN name[i]
        ELSE IF i > 1 /\ IsCased(name[i - 1]) THEN Lower(name[i])
        ELSE Upper(name[i])]

\* str.find('_'): the 0-based index of the first underscore, -1 without one.
find_underscore(name) ==
    IF \E i \in DOMAIN name : name[i] = "_"
    THEN (CHOOSE i \in DOMAIN name :
            /\ name[i] = "_"
            /\ \A j \in 1..(i - 1) : name[j] # "_") - 1
    ELSE -1

\* str.replace('_', ' ')
replace_underscores(name) ==
    [i \in DOMAIN name |-> IF name[i] = "_" THEN " " ELSE name[i]]

\* The body of the loop of clean_cuisine_names for one name.
clean_one(name) ==
    LET new_name == title(name)
    IN  IF find_underscore(new_name) > 0 THEN replace_underscores(new_name)
        ELSE new_name

NamesInit ==
    /\ cuisine_names \in SeqsUpTo(NamePool, MaxNames)
    /\ clean_names = <<>>
    /\ npc = "loop"

\* One iteration of the for loop: the next name is cleaned and appended.
CleanStep ==
    /\ npc = "loop"
    /\ Len(clean_names) < Len(cuisine_names)
    /\ clean_names' = Append(clean_names, clean_one(cuisine_names[Len(clean_names) + 1]))
    /\ UNCHANGED <<cuisine_names, npc>>
    /\ UNCHANGED <<counterVars, folderVars, cuisineVars>>

\* The loop is exhausted: return clean_names.
CleanReturn ==
    /\ npc = "loop"
    /\ Len(clean_names) = Len(cuisine_names)
    /\ npc' = "returned"
    /\ UNCHANGED <<cuisine_names, clean_names>>
    /\ UNCHANGED <<counterVars, folderVars, cuisineVars>>

NamesIdle ==
    /\ cuisine_names = <<>>
    /\ clean_names = <<>>
    /\ npc = "idle"

\* --------------------------------------------------------------- create_folder
Names == {"pkg", "figures"}

\* A path is the sequence of its components below the root.
Paths == UNION {[1..k -> Names] : k \in 1..MaxDepth}

Ancestors(p) == {SubSeq(p, 1, k) : k \in 1..(Len(p) - 1)}

Kinds == {"absent", "dir", "file"}

\* The paths of d components that a file system f of the shorter paths
\* leaves room for: those whose parent is a directory.
OpenPaths(f, d) ==
    {p \in [1..d -> Names] : d = 1 \/ f[SubSeq(p, 1, d - 1)] = "dir"}

\* The file systems over the paths of at most d components: whatever exists
\* sits in a directory.
RECURSIVE FileSystems(_)
FileSystems(d) ==
    IF d = 0 THEN {<<>>}
    ELSE LET shorter == UNION {[1..k -> Names] : k \in 1..(d - 1)}
             longest == [1..d -> Names]
         IN  UNION { LET open == OpenPaths(f, d)
                         closed == [p \in longest \ open |-> "absent"]
                         kept == [p \in shorter |-> f[p]]
                     IN  {kept @@ g @@ closed : g \in [open -> Kinds]}
                     : f \in FileSystems(d - 1) }

\* os.path.isdir(p) in place of os.path.exists(p).
isdir(f, p) == f[p] = "dir"

\* os.path.exists(p)
exists(f, p) == f[p] # "absent"

\* os.makedirs(p) fails when a component of the path is not a directory.
makedirs_raises(f, p) == f[p] # "absent" \/ \E a \in Ancestors(p) : f[a] = "file"

\* os.makedirs(p): the missing ancestors are created first, then p.
makedirs(f, p) ==
    [q \in Paths |-> IF q \in Ancestors(p) \cup {p} /\ f[q] = "absent"
                     THEN "dir" ELSE f[q]]

FolderInit ==
    /\ fs \in FileSystems(MaxDepth)
    /\ called = <<>>
    /\ ret = "none"

\* create_folder(complete_path)
create_folder(complete_path) ==
    /\ called' = complete_path
    /\ IF exists(fs, complete_path)
       THEN /\ ret' = "0"
            /\ UNCHANGED fs
       ELSE IF makedirs_raises(fs, complete_path)
       THEN /\ ret' = "raise"
            /\ UNCHANGED fs
       ELSE /\ ret' = "0"
            /\ fs' = makedirs(fs, complete_path)
    /\ UNCHANGED <<counterVars, nameVars, cuisineVars>>

FolderIdle ==
    /\ fs = <<>>
    /\ called = <<>>
    /\ ret = "none"

\* ------------------------------------------------ the script's cuisines section
Cuisines == {"greek", "thai", "irish"}

\* Series.value_counts(): one entry per distinct label with its number of
\* rows, most frequent first; the labels come in the order the hash table
\* yields them.
value_counts(col, order) == sort_values(Series(Counter(col), order))

\* Series.nunique(): the number of distinct VALUES of the Series.
nunique(s) == Cardinality({s[i].value : i \in DOMAIN s})

CuisinesInit ==
    /\ df_cuisine \in SeqsUpTo(Cuisines, MaxRecipes)
    /\ cuisine = <<>>
    /\ n_cuisines = -1
    /\ cpc = "loaded"

\* cuisine = df['cuisine'].value_counts()
ValueCounts ==
    /\ cpc = "loaded"
    /\ \E order \in Perms(Range(df_cuisine)) :
          cuisine' = value_counts(df_cuisine, order)
    /\ cpc' = "counted"
    /\ UNCHANGED <<df_cuisine, n_cuisines>>
    /\ UNCHANGED <<counterVars, nameVars, folderVars>>

\* n_cuisines = cuisine.nunique(), then printed as the number of different
\* cuisines.
ReportCuisines ==
    /\ cpc = "counted"
    /\ n_cuisines' = nunique(cuisine)
    /\ cpc' = "reported"
    /\ UNCHANGED <<df_cuisine, cuisine>>
    /\ UNCHANGED <<counterVars, nameVars, folderVars>>

CuisinesIdle ==
    /\ df_cuisine = <<>>
    /\ cuisine = <<>>
    /\ n_cuisines = -1
    /\ cpc = "idle"

\* ingredients_counter run to its end with N chunks, as a function of its
\* input: the merged Counter, or the TypeError of the merge.
CountingOutcome(d, N) ==
    PySum(EmptyCounter, [w \in 1..N |-> parallel_counting(array_split(d, N)[w])])

\* ------------------------------------------------------------- specifications
Init == CounterInit /\ NamesIdle /\ FolderIdle /\ CuisinesIdle

Next ==
    \/ Split
    \/ \E w \in Workers : Worker(w)
    \/ PoolMapRaise
    \/ Reduce

Spec == Init /\ [][Next]_vars

InitNames == NamesInit /\ CounterIdle /\ FolderIdle /\ CuisinesIdle

NextNames ==
    \/ CleanStep
    \/ CleanReturn

SpecNames == InitNames /\ [][NextNames]_vars

InitFolder == FolderInit /\ CounterIdle /\ NamesIdle /\ CuisinesIdle

NextFolder == \E p \in Paths : create_folder(p)

SpecFolder == InitFolder /\ [][NextFolder]_vars

InitCuisines == CuisinesInit /\ CounterIdle /\ NamesIdle /\ FolderIdle

NextCuisines ==
    \/ ValueCounts
    \/ ReportCuisines

SpecCuisines == InitCuisines /\ [][NextCuisines]_vars

\* ---------------------------------------------------------------- properties
\* Every list of the dataset is a list of ingredient names.
WellFormed(d) == \A i \in DOMAIN d : Unhashable \notin Range(d[i])

\* How often ingredient k occurs in the dataset, repetitions included.
Occurrences(d, k) ==
    Cardinality(UNION {{<<i, j>> : j \in {x \in DOMAIN d[i] : d[i][x] = k}} :
                        i \in DOMAIN d})

Terminated == pc \in {"returned", "raised"}

\* The returned Series has one entry per key and holds exactly these counts.
ReturnsExactCounts ==
    /\ pc = "returned"
    /\ \A i, j \in DOMAIN ingredients_count :
          ingredients_count[i].key = ingredients_count[j].key => i = j
    /\ \A k \in Ingredients :
          IF Occurrences(data, k) > 0
          THEN \E i \in DOMAIN ingredients_count :
                  ingredients_count[i] = [key |-> k, value |-> Occurrences(data, k)]
          ELSE \A i \in DOMAIN ingredients_count : ingredients_count[i].key # k

\* The returned Series read as a mapping.
ReturnedMapping ==
    [k \in {ingredients_count[i].key : i \in DOMAIN ingredients_count} |->
        ingredients_count[CHOOSE i \in DOMAIN ingredients_count :
                              ingredients_count[i].key = k].value]

\* C1: for every dataset of ingredient lists and every worker count, the run
\* returns a mapping that gives each ingredient exactly its number of
\* occurrences in the dataset and has no key for an absent ingredient.
\* Stated for the datasets with at least one record (the empty one is C3's).
C1_ExactCounts ==
    (Terminated /\ WellFormed(data) /\ Len(data) > 0) => ReturnsExactCounts

\* C2: the run with the machine's worker count and the run with any other
\* worker count both complete, and they return the same mapping, also when
\* the worker count exceeds the number of records.  Stated for the datasets
\* with at least one record (the empty one is C3's).
C2_SameForAnyN ==
    (Terminated /\ WellFormed(data) /\ Len(data) > 0) =>
        /\ pc = "returned"
        /\ \A N \in 1..(MaxCores + 1) :
              /\ CountingOutcome(data, N).tag = "Counter"
              /\ CountingOutcome(data, N).c = ReturnedMapping

\* C3: on the empty dataset the run completes normally and returns the
\* empty mapping.
C3_EmptyDataset ==
    (Terminated /\ Len(data) = 0) => (pc = "returned" /\ ingredients_count = <<>>)

\* C4: the returned Series is ordered by non-increasing count.
C4_NonIncreasing ==
    pc = "returned" =>
        \A i \in 1..(Len(ingredients_count) - 1) :
            ingredients_count[i].value >= ingredients_count[i + 1].value

\* A returned Series of three entries with a strict descent and a tie.
C4_Witness ==
    /\ pc = "returned"
    /\ Len(ingredients_count) = 3
    /\ ingredients_count[1].value > ingredients_count[2].value
    /\ ingredients_count[2].value = ingredients_count[3].value

\* The concatenation of a sequence of sequences.
RECURSIVE Flatten(_)
Flatten(ss) == IF Len(ss) = 0 THEN <<>> ELSE Head(ss) \o Flatten(Tail(ss))

\* The number of records in the chunks before chunk w.
Offset(w) == Len(Flatten(SubSeq(data_chunks, 1, w - 1)))

\* C6: once split, there are N chunks, each a run of consecutive records
\* starting where the chunk before it ends, every record is in exactly one
\* chunk, and the chunks concatenated in order are the dataset.
C6_ChunksPartition ==
    pc # "start" =>
        /\ Len(data_chunks) = cores
        /\ \A w \in 1..cores :
              data_chunks[w] = SubSeq(data, Offset(w) + 1, Offset(w) + Len(data_chunks[w]))
        /\ \A r \in DOMAIN data :
              Cardinality({w \in 1..cores :
                  Offset(w) < r /\ r <= Offset(w) + Len(data_chunks[w])}) = 1
        /\ Flatten(data_chunks) = data

\* A split of three records over two workers: the size is not divisible.
C6_Witness ==
    /\ pc # "start"
    /\ Len(data) = 3
    /\ cores = 2
    /\ Len(data_chunks[1]) = 2
    /\ Len(data_chunks[2]) = 1

MergeStarted == pc = "returned" \/ (pc = "raised" /\ error = "sum")

\* A step that changes the result slot of chunk w is worker w's: it was
\* pending, it wrote the count of its own chunk, and no other slot, task,
\* chunk or record changed.
WorkerIsolation ==
    \A w \in DOMAIN counter_list :
        counter_list'[w] # counter_list[w] =>
            /\ task[w] = "pending"
            /\ counter_list'[w] = parallel_counting(data_chunks[w])
            /\ \A v \in DOMAIN counter_list \ {w} :
                  counter_list'[v] = counter_list[v] /\ task'[v] = task[v]
            /\ data_chunks' = data_chunks
            /\ data' = data

\* C7: the merge starts only when all N workers have returned their partial
\* counts, each worker reads its own chunk and writes its own result only,
\* and what is merged is fixed by the dataset and N, whatever the order in
\* which the workers finished.
C7_MergeAfterAllWorkers ==
    /\ [](MergeStarted =>
            /\ \A w \in 1..cores : task[w] = "done"
            /\ \A w \in 1..cores : counter_list[w] = parallel_counting(data_chunks[w])
            /\ (pc = "returned" => CountingOutcome(data, cores) = CounterVal(ReturnedMapping))
            /\ (pc = "raised" => CountingOutcome(data, cores).tag # "Counter"))
    /\ [][WorkerIsolation]_vars

\* A merge of the partial counts of three workers that each had records.
C7_Witness ==
    /\ pc = "returned"
    /\ cores = 3
    /\ \A w \in 1..cores : task[w] = "done" /\ Len(data_chunks[w]) > 0
    /\ Len(ingredients_count) >= 2

\* C8: once the worker of a chunk with a list that cannot be counted has run,
\* its task has failed and stays failed with its result untouched (no retry),
\* no mapping is ever returned, and the caller's only way on is the worker's
\* exception.
C8_WorkerFailureAborts ==
    /\ [](\A w \in DOMAIN task :
            (task[w] # "pending" /\ ~WellFormed(data_chunks[w])) =>
                /\ task[w] = "failed"
                /\ pc # "returned"
                /\ ingredients_count = <<>>
                /\ (pc = "raised" => error = "worker")
                /\ (pc = "map" => (ENABLED PoolMapRaise /\ ~ENABLED Reduce)))
    /\ [][\A w \in DOMAIN task :
            task[w] = "failed" =>
                (task'[w] = "failed" /\ counter_list'[w] = counter_list[w])]_vars

\* The caller has raised the worker's exception while another chunk's
\* partial count had been returned.
C8_Witness ==
    /\ pc = "raised"
    /\ error = "worker"
    /\ \E w \in DOMAIN task : task[w] = "failed"
    /\ \E w \in DOMAIN task : task[w] = "done" /\ counter_list[w].tag = "Counter"
    /\ ingredients_count = <<>>

\* The display form of a name: every underscore a space, every letter that
\* starts a word upper-case and every other letter lower-case.
DisplayName(name) ==
    [j \in DOMAIN name |->
        IF name[j] = "_" THEN " "
        ELSE IF j = 1 \/ name[j - 1] \notin {"a", "A"}
             THEN (IF name[j] = "a" THEN "A" ELSE name[j])
             ELSE (IF name[j] = "A" THEN "a" ELSE name[j])]

\* C5: clean_cuisine_names returns as many names as it was given, in the
\* same order, each the display form of its input name: no underscore is
\* left, wherever the underscores of the input are.
C5_CleanNames ==
    npc = "returned" =>
        /\ Len(clean_names) = Len(cuisine_names)
        /\ \A i \in DOMAIN clean_names :
              /\ clean_names[i] = DisplayName(cuisine_names[i])
              /\ \A j \in DOMAIN clean_names[i] : clean_names[i][j] # "_"

\* What the file system holds at p after a call that created p.
Created(p) ==
    /\ fs'[p] = "dir"
    /\ \A a \in Ancestors(p) : fs'[a] = "dir"
    /\ \A q \in Paths \ (Ancestors(p) \cup {p}) : fs'[q] = fs[q]

\* C9 as stated: after any call the directory p exists and the call
\* returned 0; a call on an existing p changes nothing; a repeated call
\* changes nothing.
C9_Idempotent ==
    /\ [](called # <<>> => (ret = "0" /\ fs[called] = "dir"))
    /\ [][\A p \in Paths : called' = p =>
            /\ (fs[p] # "absent" => (fs' = fs /\ ret' = "0"))
            /\ (called = p => fs' = fs)]_vars

\* C9 amended: a call on an existing p (a directory or not) changes nothing
\* and returns 0; a call on an absent p whose ancestors are directories or
\* absent creates the directory p with its ancestors, touches nothing else
\* and returns 0; a call on an absent p below a non-directory raises and
\* changes nothing; a repeated call changes nothing and ends as the first.
C9_IdempotentAmended ==
    /\ [](called # <<>> =>
            /\ (ret = "0" => fs[called] # "absent")
            /\ (ret = "raise" =>
                    /\ fs[called] = "absent"
                    /\ \E a \in Ancestors(called) : fs[a] = "file"))
    /\ [][\A p \in Paths : called' = p =>
            /\ (fs[p] # "absent" => (fs' = fs /\ ret' = "0"))
            /\ ((fs[p] = "absent" /\ \A a \in Ancestors(p) : fs[a] # "file") =>
                    (ret' = "0" /\ Created(p)))
            /\ ((fs[p] = "absent" /\ \E a \in Ancestors(p) : fs[a] = "file") =>
                    (ret' = "raise" /\ fs' = fs))
            /\ (called = p => (fs' = fs /\ ret' = ret))]_vars

\* A call that returned 0 on a path that holds a file, not a directory.
C9_Witness ==
    /\ called # <<>>
    /\ ret = "0"
    /\ fs[called] = "file"

\* C10: the number reported as the number of different cuisines is the
\* number of distinct cuisine labels of the records.
C10_DistinctCuisines ==
    cpc = "reported" => n_cuisines = Cardinality(Range(df_cuisine))
====
